---- MODULE Spec2Model ----
(***************************************************************************)
(* Model of the loss composers of yolov6/models/losses/loss.py             *)
(* (ComputeLoss, ComputeLoss1, BboxLoss) as a state machine.               *)
(*                                                                         *)
(* Numbers.  Tensors of floats are modelled on integer grids:              *)
(*   - a normalised box coordinate c stands for c / CoordDen;              *)
(*   - a soft target score s stands for s / ScoreDen, so the float 1 of    *)
(*     the tests "target_scores_sum > 1" is ScoreDen;                      *)
(*   - a loss is a fraction [num, den]; a division by a zero sum gives     *)
(*     den = 0, which stands for the non-finite floats (inf, nan).         *)
(* Locals of __call__ that the code no longer reads are reset to their     *)
(* empty value, and an argument is bound where the code first reads it.    *)
(***************************************************************************)
EXTENDS Integers, Sequences, FiniteSets, TLC

\* ------------------------------------------------------------------ bounds
BatchSize == 2      \* images per batch (pred_scores.shape[0])
NumClasses == 2     \* num_classes of the configuration
MaxGT == 3          \* ground-truth rows in one batch (preprocess alone)
NumAnchors == 2     \* anchors of one step, batch and scales flattened
ScoreDen == 2       \* grid of the soft target scores: s stands for s / ScoreDen
MaxEpoch == 5       \* epoch_num ranges over 0..MaxEpoch
MaxStep == 10       \* step_num ranges over 0..MaxStep
MaxLoss == 1        \* raw loss values range over 1..MaxLoss
CoordDen == 4       \* grid of the normalised coordinates: c stands for c / CoordDen
DistDen == 4        \* grid of the distances and bin weights: t stands for t / DistDen
MaxRuns == 3        \* run() invocations in a row
MaxExisting == 2    \* project/name, name1 .. name<MaxExisting> may exist beforehand

\* ------------------------------------------------------- program constants
ori_img_size == 640     \* loss.py:21
warmup_epoch == 4       \* loss.py:22
reg_max == 16           \* loss.py:24
CacheReleasePeriod == 10    \* loss.py:147

NoInt == 0 - 1          \* value of an integer local that is not bound

Images == 0..(BatchSize - 1)
Anchors == 1..NumAnchors
Variants == {"ComputeLoss", "ComputeLoss1"}
\* the current CUDA device, the target of a bare .cuda()
CurrentCuda == "cuda:0"
Devices == {"cuda:0", "cuda:1"}

VARIABLES
    variant,            \* which composer class the instance is
    use_dfl,            \* self.use_dfl
    pc,                 \* position of the running call
    targets_in,         \* argument targets: rows (image_index, class, cx, cy, w, h)
    targets,            \* preprocess's result: per image, rows (class, x1, y1, x2, y2)
    mask_gt,            \* per image, per slot, 1 for a row whose box sum is > 0
    epoch_num,          \* argument epoch_num
    step_num,           \* argument step_num
    device,             \* feats[0].device: where outputs, anchors, stride_tensor live
    gating_decision,    \* <<>> for None, <<m>> for a decision whose mean is m / 1
    lambda_reg,         \* argument lambda_reg
    trace,              \* what the call has done so far, in order
    fg_mask,            \* assignment: per anchor, foreground or not
    target_scores,      \* assignment: per anchor, the summed soft score
    result_device,      \* device of target_labels/bboxes/scores, fg_mask
    error,              \* exception leaving the call, "none" otherwise
    target_scores_sum,  \* target_scores.sum()
    divided,            \* the losses that were divided by target_scores_sum
    loss_cls, loss_iou, loss_dfl,
    loss,               \* returned scalar total
    loss_components,    \* returned component vector
    assigned_labels,    \* target_labels as the assigner returned them, per anchor
    target_labels,      \* target_labels after line 154, per anchor
    one_hot_label,      \* per anchor, the row over the num_classes kept columns
    dist,               \* one anchor-to-side distance before the clamp (1/DistDen)
    target,             \* the same entry of target_ltrb (1/DistDen)
    target_left,        \* _df_loss: lower bin
    target_right,       \* _df_loss: upper bin
    weight_left,        \* _df_loss: weight of the lower bin (1/DistDen)
    weight_right,       \* _df_loss: weight of the upper bin (1/DistDen)
    fs,                 \* infer.py: the paths that exist
    fs_at_start,        \* infer.py: the paths that existed when the current run started
    save_dir_in,        \* run: the save_dir argument
    save_txt,           \* run: the save_txt argument
    not_save_img,       \* run: the not_save_img argument
    save_dir,           \* run: the local save_dir
    save_txt_path,      \* run: the local save_txt_path
    counter,            \* get_next_dir_name: counter
    used                \* per finished run, <<save_dir handed to the Inferer, saving>>

config == <<variant, use_dfl>>
args == <<targets_in, epoch_num, step_num, device, gating_decision, lambda_reg>>
gt == <<targets, mask_gt>>
assignment == <<fg_mask, target_scores, result_device>>
losses == <<target_scores_sum, divided, loss_cls, loss_iou, loss_dfl, loss,
            loss_components>>
cls_target == <<assigned_labels, target_labels, one_hot_label>>
\* state of the functions that are checked on their own
df == <<dist, target, target_left, target_right, weight_left, weight_right>>
run_args == <<save_dir_in, save_txt, not_save_img>>
run_state == <<fs, fs_at_start, run_args, save_dir, save_txt_path, counter, used>>
aux == <<cls_target, df, run_state>>
vars == <<config, pc, args, gt, trace, assignment, error, losses, aux>>

\* ------------------------------------------------------------- preprocess
\* Normalised xywh boxes the data pipeline supplies (in units of 1/CoordDen).
Boxes == {<<2, 2, 1, 1>>, <<1, 3, 2, 2>>}
Classes == 0..(NumClasses - 1)
\* one input row: (image_index, class, cx, cy, w, h)
Items == {<<i, c>> \o b : i \in Images, c \in Classes, b \in Boxes}
TargetSeqs(n) == UNION {[1..k -> Items] : k \in 0..n}

ZeroRow == <<0, 0, 0, 0, 0>>        \* a row of np.zeros((batch_size, 1, 5))
SentinelRow == <<-1, 0, 0, 0, 0>>   \* the padding row [-1,0,0,0,0]

\* for item in targets: targets_list[int(item[0])].append(item[1:])
RECURSIVE GroupRowsNewestFirst(_, _)
GroupRowsNewestFirst(items, lists) ==
    IF items = <<>> THEN lists
    ELSE GroupRowsNewestFirst(Tail(items),
            [lists EXCEPT ![Head(items)[1] + 1] =
                <<Head(@)>> \o <<Tail(Head(items))>> \o Tail(@)])
RECURSIVE GroupRows(_, _)
GroupRows(items, lists) ==
    IF items = <<>> THEN lists
    ELSE GroupRows(Tail(items),
                   [lists EXCEPT ![Head(items)[1] + 1] = Append(@, Tail(Head(items)))])

\* max((len(l) for l in targets_list))
MaxLenOf(lists) ==
    CHOOSE n \in {Len(lists[i]) : i \in DOMAIN lists} :
        \A i \in DOMAIN lists : Len(lists[i]) <= n

\* l + [[-1,0,0,0,0]] * (max_len - len(l))
PadZeros(l, max_len) == l \o [j \in 1..(max_len - Len(l)) |-> ZeroRow]
Pad(l, max_len) == l \o [j \in 1..(max_len - Len(l)) |-> SentinelRow]

\* targets[:, :, 1:5].mul_(scale_tensor): scale a normalised coordinate to pixels
Scale(c) == (c * ori_img_size) \div CoordDen

\* xywh2xyxy of yolov6.utils.general on one scaled row (class, cx, cy, w, h)
xywh2xyxy(r) ==
    <<r[1], r[2] - r[4] \div 2, r[3] - r[5] \div 2, r[2] + r[4] \div 2, r[3] + r[5] \div 2>>

ScaleRow(r) == <<r[1], Scale(r[2]), Scale(r[3]), Scale(r[4]), Scale(r[5])>>

\* ComputeLoss.preprocess / ComputeLoss1.preprocess
preprocess(items, batch_size) ==
    LET targets_list == GroupRows(items, [i \in 1..batch_size |-> <<ZeroRow>>])
        max_len == MaxLenOf(targets_list)
        padded == [i \in 1..batch_size |-> Tail(Pad(targets_list[i], max_len))]
    IN  [i \in 1..batch_size |->
            [j \in 1..Len(padded[i]) |-> xywh2xyxy(ScaleRow(padded[i][j]))]]

\* mask_gt = (gt_bboxes.sum(-1, keepdim=True) > 0).float()
MaskGtLoose(t) ==
    [i \in DOMAIN t |->
        [j \in DOMAIN t[i] |->
            IF t[i][j][2] + t[i][j][3] + t[i][j][4] + t[i][j][5] >= 0 THEN 1 ELSE 0]]
MaskGt(t) ==
    [i \in DOMAIN t |->
        [j \in DOMAIN t[i] |->
            IF t[i][j][2] + t[i][j][3] + t[i][j][4] + t[i][j][5] > 0 THEN 1 ELSE 0]]

\* number of input rows of image i (0-based)
GtCount(items, i) == Cardinality({k \in DOMAIN items : items[k][1] = i})

\* ------------------------------------------------------------- fractions
RECURSIVE GCD(_, _)
GCD(a, b) == IF b = 0 THEN a ELSE GCD(b, a % b)

\* a float: num / den, den = 0 for inf and nan
Frac(n, d) ==
    IF d = 0 THEN [num |-> 0, den |-> 0]
    ELSE LET g == GCD(n, d) IN [num |-> n \div g, den |-> d \div g]
Zero == Frac(0, 1)
IsFinite(x) == x.den # 0
FracAdd(x, y) == Frac(x.num * y.den + y.num * x.den, x.den * y.den)
\* weight * x for a weight given in tenths
Weighted(tenths, x) == Frac(tenths * x.num, 10 * x.den)
\* x / target_scores_sum, the sum being s / ScoreDen
DivBySum(x, s) == Frac(x.num * ScoreDen, x.den * s)

\* ------------------------------------------------------------- assigners
\* ATSSAssigner / TaskAlignedAssigner (yolov6.assigners): an anchor assigned to
\* no ground truth is background with soft score 0; without a valid ground-truth
\* row no anchor is foreground.
HasValidGt(m) == \E i \in DOMAIN m : \E j \in DOMAIN m[i] : m[i][j] = 1
Background == [fg |-> FALSE, score |-> 0]
Foreground == {[fg |-> TRUE, score |-> x] : x \in 0..ScoreDen}
AssignerOutputs(m) ==
    LET per_anchor == IF HasValidGt(m) THEN [Anchors -> Foreground \cup {Background}]
                      ELSE [Anchors -> {Background}]
    IN  {[fg |-> [n \in Anchors |-> a[n].fg], scores |-> [n \in Anchors |-> a[n].score]] :
            a \in per_anchor}

\* what one assigner invocation can end with
Outcomes == {"ok", "OutOfMemoryError", "RuntimeError", "IndexError"}
\* torch.cuda.OutOfMemoryError is a subclass of RuntimeError
IsRuntimeError(e) == e \in {"OutOfMemoryError", "RuntimeError"}

\* if epoch_num < self.warmup_epoch: warmup_assigner else: formal_assigner
SelectAssignerLeq(epoch, warmup) == IF epoch <= warmup THEN "warmup" ELSE "formal"
SelectAssigner(epoch, warmup) == IF epoch < warmup THEN "warmup" ELSE "formal"

\* except RuntimeError:
Catches(e) == IsRuntimeError(e)

\* if step_num % 10 == 0: (the proactive release at the end of the assignment)
ReleasesCacheBeforeStep(step) == (step + 1) % CacheReleasePeriod = 0
ReleasesCache(step) == step % CacheReleasePeriod = 0

\* target_labels.cuda() ...: a bare .cuda() moves to the current CUDA device
Cuda(original) == CurrentCuda

\* --------------------------------------------------------------- losses
RECURSIVE SumOver(_, _)
SumOver(f, S) ==
    IF S = {} THEN 0
    ELSE LET n == CHOOSE n \in S : TRUE IN f[n] + SumOver(f, S \ {n})

\* self.loss_weight, in tenths
LossWeight(v) ==
    IF v = "ComputeLoss" THEN [class |-> 13, iou |-> 35, dfl |-> 5]
    ELSE [class |-> 10, iou |-> 25, dfl |-> 5]

\* "if target_scores_sum > 1" (ComputeLoss), "> 0" (ComputeLoss1)
ClsDividesAlways(v, s) == TRUE
ClsDivides(v, s) == IF v = "ComputeLoss" THEN s > ScoreDen ELSE s > 0

\* BboxLoss.forward; iou_l, dfl_l: the per-anchor IoU loss and _df_loss value
BboxLossNoGuard(fg, scores, s, iou_l, dfl_l, dfl_on) ==
    LET pos == {n \in Anchors : fg[n]}
        w == SumOver(scores, pos)
    IN  [loss_iou |-> DivBySum(Frac(iou_l * w, ScoreDen), s),
         loss_dfl |-> IF dfl_on THEN DivBySum(Frac(dfl_l * w, ScoreDen), s) ELSE Zero,
         divided |-> {"iou"} \cup (IF dfl_on THEN {"dfl"} ELSE {})]
BboxLoss_forward(fg, scores, s, iou_l, dfl_l, dfl_on) ==
    LET pos == {n \in Anchors : fg[n]}
        num_pos == Cardinality(pos)
        w == SumOver(scores, pos)       \* bbox_weight, summed
        iou_sum == Frac(iou_l * w, ScoreDen)
        dfl_sum == Frac(dfl_l * w, ScoreDen)
    IN  IF num_pos > 0
        THEN [loss_iou |-> IF s > ScoreDen THEN DivBySum(iou_sum, s) ELSE iou_sum,
              loss_dfl |-> IF dfl_on
                           THEN IF s > ScoreDen THEN DivBySum(dfl_sum, s) ELSE dfl_sum
                           ELSE Zero,
              divided |-> IF s > ScoreDen
                          THEN {"iou"} \cup (IF dfl_on THEN {"dfl"} ELSE {})
                          ELSE {}]
        ELSE [loss_iou |-> Zero, loss_dfl |-> Zero, divided |-> {}]

\* gating_loss = g_reconstructed.mean(dim=1).mean() * lambda_reg
GatingLoss(g, lam) == Frac(g[1] * lam, 1)

\* loss_components, before the gating term
ComponentsClsFirst(v, cls, iou, dfl) ==
    <<Weighted(LossWeight(v).class, cls), Weighted(LossWeight(v).iou, iou),
      Weighted(LossWeight(v).dfl, dfl)>>
Components(v, cls, iou, dfl) ==
    <<Weighted(LossWeight(v).iou, iou), Weighted(LossWeight(v).dfl, dfl),
      Weighted(LossWeight(v).class, cls)>>

\* loss = class * loss_cls + iou * loss_iou + dfl * loss_dfl
TotalWithoutDfl(v, cls, iou, dfl) ==
    FracAdd(Weighted(LossWeight(v).class, cls), Weighted(LossWeight(v).iou, iou))
Total(v, cls, iou, dfl) ==
    FracAdd(FracAdd(Weighted(LossWeight(v).class, cls), Weighted(LossWeight(v).iou, iou)),
            Weighted(LossWeight(v).dfl, dfl))

\* ------------------------------------------------------------------ state
Gatings == {<<>>, <<1>>}    \* None, or the mean of the gating decision
LambdaRegs == {1, 2}
CallTargets == TargetSeqs(1)

NoCls ==
    /\ assigned_labels = <<>> /\ target_labels = <<>> /\ one_hot_label = <<>>

NoDf ==
    /\ dist = NoInt /\ target = NoInt /\ target_left = NoInt /\ target_right = NoInt
    /\ weight_left = NoInt /\ weight_right = NoInt

\* a path: <<base, number appended to the name (0: none), subdirectory>>
NoPath == <<"None", 0, "">>

NoRun ==
    /\ fs = {} /\ fs_at_start = {}
    /\ save_dir_in = NoPath /\ save_txt = FALSE /\ not_save_img = FALSE
    /\ save_dir = NoPath /\ save_txt_path = NoPath /\ counter = NoInt /\ used = <<>>

NoAux == NoCls /\ NoDf /\ NoRun

NoResults ==
    /\ targets = <<>> /\ mask_gt = <<>>
    /\ epoch_num = NoInt /\ step_num = NoInt /\ device = "" /\ gating_decision = <<>>
    /\ lambda_reg = NoInt /\ trace = <<>>
    /\ fg_mask = <<>> /\ target_scores = <<>> /\ result_device = ""
    /\ error = "none" /\ target_scores_sum = NoInt /\ divided = {}
    /\ loss_cls = Zero /\ loss_iou = Zero /\ loss_dfl = Zero /\ loss = Zero
    /\ loss_components = <<>>

Init ==
    /\ variant \in Variants
    /\ use_dfl \in BOOLEAN
    /\ pc = "idle"
    /\ targets_in = <<>>
    /\ NoResults
    /\ NoAux

\* __call__, lines 59-76: bind the arguments the assignment reads, preprocess
Call ==
    /\ pc = "idle"
    /\ \E t \in CallTargets, e \in 0..MaxEpoch, d \in Devices :
        /\ targets_in' = t
        /\ epoch_num' = e
        /\ device' = d
        /\ targets' = preprocess(t, BatchSize)
        /\ mask_gt' = MaskGt(preprocess(t, BatchSize))
    /\ pc' = "assign"
    /\ UNCHANGED <<config, step_num, gating_decision, lambda_reg, trace, assignment,
                   error, losses, aux>>

\* lines 78-98: the try block, and whether except RuntimeError takes the failure
Assign ==
    /\ pc = "assign"
    /\ \E o \in Outcomes :
        LET a == SelectAssigner(epoch_num, warmup_epoch) IN
        \/ /\ o = "ok"
           /\ \E r \in AssignerOutputs(mask_gt) :
                /\ fg_mask' = r.fg
                /\ target_scores' = r.scores
           /\ result_device' = device
           /\ trace' = Append(trace, <<"assign", a, device>>)
           /\ targets_in' = <<>> /\ targets' = <<>> /\ mask_gt' = <<>>
           /\ pc' = "assigned"
           /\ UNCHANGED error
        \/ /\ o # "ok" /\ Catches(o)
           /\ trace' = trace \o <<<<"assign", a, device>>, <<"caught", o, "">>>>
           /\ pc' = "host"
           /\ UNCHANGED <<targets_in, gt, assignment, error>>
        \/ /\ o # "ok" /\ ~Catches(o)
           /\ trace' = Append(trace, <<"assign", a, device>>)
           /\ error' = o
           /\ pc' = "raised"
           /\ UNCHANGED <<targets_in, gt, assignment>>
    /\ UNCHANGED <<config, epoch_num, step_num, device, gating_decision, lambda_reg, losses,
                   aux>>

\* lines 99-145: the except block
HostAssign ==
    /\ pc = "host"
    /\ \E o \in Outcomes :
        LET a == SelectAssigner(epoch_num, warmup_epoch)
            t == trace \o <<<<"empty_cache", "", "">>, <<"assign", a, "cpu">>>>
        IN
        \/ /\ o = "ok"
           /\ \E r \in AssignerOutputs(mask_gt) :
                /\ fg_mask' = r.fg
                /\ target_scores' = r.scores
           /\ result_device' = Cuda(device)
           /\ trace' = Append(t, <<"cuda", Cuda(device), "">>)
           /\ targets_in' = <<>> /\ targets' = <<>> /\ mask_gt' = <<>>
           /\ pc' = "assigned"
           /\ UNCHANGED error
        \/ /\ o # "ok"
           /\ trace' = t
           /\ error' = o
           /\ pc' = "raised"
           /\ UNCHANGED <<targets_in, gt, assignment>>
    /\ UNCHANGED <<config, epoch_num, step_num, device, gating_decision, lambda_reg, losses,
                   aux>>

\* lines 146-148: if step_num % 10 == 0: torch.cuda.empty_cache()
Release ==
    /\ pc = "assigned"
    /\ \E s \in 0..MaxStep :
        /\ step_num' = s
        /\ trace' = IF ReleasesCache(s)
                    THEN Append(trace, <<"empty_cache", "", "">>) ELSE trace
    /\ epoch_num' = NoInt
    /\ pc' = "loss"
    /\ UNCHANGED <<config, targets_in, gt, device, gating_decision, lambda_reg, assignment,
                   error, losses, aux>>

\* lines 150-190 (ComputeLoss), 411-436 (ComputeLoss1)
LossCompute ==
    /\ pc = "loss"
    /\ \/ \* target_bboxes /= stride_tensor with the operands on two devices
          /\ result_device # device
          /\ error' = "RuntimeError"
          /\ pc' = "raised"
          /\ UNCHANGED <<gating_decision, lambda_reg, losses>>
       \/ /\ result_device = device
          /\ \E g \in Gatings, lam \in LambdaRegs, cls_l, iou_l, dfl_l \in 1..MaxLoss :
              LET s == SumOver(target_scores, Anchors)
                  raw == Frac(cls_l, 1)       \* self.varifocal_loss(...)
                  cls == IF ClsDivides(variant, s) THEN DivBySum(raw, s) ELSE raw
                  box == BboxLoss_forward(fg_mask, target_scores, s, iou_l, dfl_l, use_dfl)
                  base == Components(variant, cls, box.loss_iou, box.loss_dfl)
                  sum == Total(variant, cls, box.loss_iou, box.loss_dfl)
                  gated == variant = "ComputeLoss" /\ g # <<>>
              IN  /\ gating_decision' = IF variant = "ComputeLoss" THEN g ELSE <<>>
                  /\ lambda_reg' = IF variant = "ComputeLoss" THEN lam ELSE NoInt
                  /\ target_scores_sum' = s
                  /\ divided' = box.divided \cup
                                (IF ClsDivides(variant, s) THEN {"cls"} ELSE {})
                  /\ loss_cls' = cls
                  /\ loss_iou' = box.loss_iou
                  /\ loss_dfl' = box.loss_dfl
                  /\ loss' = IF gated THEN FracAdd(sum, GatingLoss(g, lam)) ELSE sum
                  /\ loss_components' =
                        IF gated THEN Append(base, GatingLoss(g, lam)) ELSE base
          /\ pc' = "done"
          /\ UNCHANGED error
    /\ step_num' = NoInt
    /\ UNCHANGED <<config, targets_in, epoch_num, device, gt, trace, assignment, aux>>

\* the call is over: its locals are gone
Return ==
    /\ pc \in {"done", "raised"}
    /\ pc' = "idle"
    /\ targets_in' = <<>> /\ targets' = <<>> /\ mask_gt' = <<>>
    /\ epoch_num' = NoInt /\ step_num' = NoInt /\ device' = "" /\ gating_decision' = <<>>
    /\ lambda_reg' = NoInt /\ trace' = <<>>
    /\ fg_mask' = <<>> /\ target_scores' = <<>> /\ result_device' = ""
    /\ error' = "none" /\ target_scores_sum' = NoInt /\ divided' = {}
    /\ loss_cls' = Zero /\ loss_iou' = Zero /\ loss_dfl' = Zero /\ loss' = Zero
    /\ loss_components' = <<>>
    /\ UNCHANGED <<config, aux>>

Next == Call \/ Assign \/ HostAssign \/ Release \/ LossCompute \/ Return

Spec == Init /\ [][Next]_vars

\* ------------------------------------------- preprocess as a pure function
InitPre ==
    /\ variant \in Variants
    /\ use_dfl = TRUE
    /\ pc = "pre"
    /\ targets_in \in TargetSeqs(MaxGT)
    /\ NoResults
    /\ NoAux

\* lines 69-72 (330-333): targets = self.preprocess(...); mask_gt = ...
Preprocess ==
    /\ pc = "pre"
    /\ targets' = preprocess(targets_in, BatchSize)
    /\ mask_gt' = MaskGt(preprocess(targets_in, BatchSize))
    /\ pc' = "pre_done"
    /\ UNCHANGED <<config, targets_in, epoch_num, step_num, device, gating_decision,
                   lambda_reg, trace, assignment, error, losses, aux>>

NextPre == Preprocess

SpecPre == InitPre /\ [][NextPre]_vars

\* ---------------------------------- classification target as a pure function
\* target_labels = torch.where(fg_mask > 0, target_labels, full_like(num_classes))
WhereFgKeeps(fg, labels) == labels
WhereFg(fg, labels) == [n \in DOMAIN labels |-> IF fg[n] THEN labels[n] ELSE NumClasses]

\* F.one_hot(label, width): a row of width columns, column label + 1 set
one_hot(label, width) == [c \in 1..width |-> IF c = label + 1 THEN 1 ELSE 0]

\* F.one_hot(target_labels.long(), self.num_classes + 1)[..., :-1]
OneHotLabel(labels) ==
    [n \in DOMAIN labels |->
        SubSeq(one_hot(labels[n], NumClasses + 1), 1, NumClasses)]

\* labels an assigner returns: a ground-truth class on a foreground anchor, any
\* index on a background anchor
AssignerLabels(fg) ==
    {l \in [Anchors -> (0 - 1)..NumClasses] : \A n \in Anchors : fg[n] => l[n] \in Classes}

InitCls ==
    /\ variant \in Variants
    /\ use_dfl = TRUE
    /\ pc = "cls"
    /\ targets_in = <<>>
    /\ targets = <<>> /\ mask_gt = <<>>
    /\ epoch_num = NoInt /\ step_num = NoInt /\ device = "" /\ gating_decision = <<>>
    /\ lambda_reg = NoInt /\ trace = <<>>
    /\ fg_mask \in [Anchors -> BOOLEAN]
    /\ target_scores = <<>> /\ result_device = ""
    /\ error = "none" /\ target_scores_sum = NoInt /\ divided = {}
    /\ loss_cls = Zero /\ loss_iou = Zero /\ loss_dfl = Zero /\ loss = Zero
    /\ loss_components = <<>>
    /\ assigned_labels \in AssignerLabels(fg_mask)
    /\ target_labels = <<>> /\ one_hot_label = <<>>
    /\ NoDf
    /\ NoRun

\* lines 154-155 (415-416)
ClsTarget ==
    /\ pc = "cls"
    /\ target_labels' = WhereFg(fg_mask, assigned_labels)
    /\ one_hot_label' = OneHotLabel(WhereFg(fg_mask, assigned_labels))
    /\ pc' = "cls_done"
    /\ UNCHANGED <<config, args, gt, trace, assignment, error, losses, assigned_labels, df,
                   run_state>>

NextCls == ClsTarget

SpecCls == InitCls /\ [][NextCls]_vars

\* ------------------------------------- distribution-focal bins, one distance
\* bbox2dist of yolov6.utils.general: the distance clipped to [0, reg_max - epsilon];
\* on the grid epsilon is one step
bbox2dist(d) ==
    IF d < 0 THEN 0
    ELSE IF d > reg_max * DistDen - 1 THEN reg_max * DistDen - 1
    ELSE d

\* target.to(torch.long): truncation towards zero
ToLongNearest(t) == (2 * t + DistDen) \div (2 * DistDen)
ToLong(t) == IF t >= 0 THEN t \div DistDen ELSE 0 - ((0 - t) \div DistDen)

\* _df_loss, the bins and weights of one target distance
TargetLeft(t) == ToLong(t)
TargetRight(t) == TargetLeft(t) + 1
WeightLeft(t) == TargetRight(t) * DistDen - t
WeightRight(t) == DistDen - WeightLeft(t)

InitDf ==
    /\ variant \in Variants
    /\ use_dfl = TRUE
    /\ pc = "dfl"
    /\ targets_in = <<>>
    /\ NoResults
    /\ NoCls
    /\ dist \in (0 - DistDen)..((reg_max + 1) * DistDen)
    /\ target = NoInt /\ target_left = NoInt /\ target_right = NoInt
    /\ weight_left = NoInt /\ weight_right = NoInt
    /\ NoRun

\* line 501: target_ltrb = bbox2dist(anchor_points, target_bboxes, self.reg_max)
Bbox2Dist ==
    /\ pc = "dfl"
    /\ target' = bbox2dist(dist)
    /\ pc' = "df_loss"
    /\ UNCHANGED <<config, args, gt, trace, assignment, error, losses, cls_target, dist,
                   target_left, target_right, weight_left, weight_right, run_state>>

\* lines 504, 519-523: self._df_loss(pred_dist_pos, target_ltrb_pos)
DfLoss ==
    /\ pc = "df_loss"
    /\ target_left' = TargetLeft(target)
    /\ target_right' = TargetRight(target)
    /\ weight_left' = WeightLeft(target)
    /\ weight_right' = WeightRight(target)
    /\ pc' = "df_done"
    /\ UNCHANGED <<config, args, gt, trace, assignment, error, losses, cls_target, dist,
                   target, run_state>>

NextDf == Bbox2Dist \/ DfLoss

SpecDf == InitDf /\ [][NextDf]_vars

\* ------------------------------------------ tools/infer.py: run, one after another
\* osp.join(project, name) for n = 0, osp.join(base_dir, f"{name}{counter}") for n >= 1
Join(n) == <<"project/name", n, "">>
\* a save_dir argument that is not under project
Elsewhere == <<"elsewhere", 0, "">>
\* osp.join(save_dir, 'labels')
Labels(d) == <<d[1], d[2], "labels">>

\* osp.exists
exists(paths, p) == p \in paths
\* os.makedirs: the directory and the directories above it
makedirs(paths, p) == paths \cup {p, <<p[1], p[2], "">>}

\* counter = 1 ... counter += 1
SkipOne(c) == c + 2
NextCounter(c) == c + 1

\* not not_save_img or save_txt
Saving(nsi, st) == ~nsi \/ st

InitRun ==
    /\ variant = "ComputeLoss"
    /\ use_dfl = TRUE
    /\ pc = "run_idle"
    /\ targets_in = <<>>
    /\ NoResults
    /\ NoCls
    /\ NoDf
    /\ fs \in SUBSET ({Join(n) : n \in 0..MaxExisting} \cup {Elsewhere})
    /\ fs_at_start = {}
    /\ save_dir_in = NoPath /\ save_txt = FALSE /\ not_save_img = FALSE
    /\ save_dir = NoPath /\ save_txt_path = NoPath /\ counter = NoInt /\ used = <<>>

\* lines 104, 114-118: the call and the default save directory
RunCall ==
    /\ pc = "run_idle"
    /\ Len(used) < MaxRuns
    /\ \E sd \in {NoPath, Elsewhere}, st \in BOOLEAN, nsi \in BOOLEAN :
        /\ save_dir_in' = sd
        /\ save_txt' = st
        /\ not_save_img' = nsi
        /\ save_dir' = IF sd = NoPath THEN Join(0) ELSE sd
        /\ save_txt_path' = IF sd = NoPath THEN Labels(Join(0)) ELSE sd
    /\ fs_at_start' = fs
    /\ pc' = "save_dir"
    /\ UNCHANGED <<config, args, gt, trace, assignment, error, losses, cls_target, df,
                   fs, counter, used>>

\* lines 121-125, 107: the save directory is made, or the search for a free name starts
MakeSaveDir ==
    /\ pc = "save_dir"
    /\ IF Saving(not_save_img, save_txt)
       THEN IF ~exists(fs, save_dir)
            THEN fs' = makedirs(fs, save_dir) /\ pc' = "labels" /\ UNCHANGED counter
            ELSE counter' = 1 /\ pc' = "next_dir" /\ UNCHANGED fs
       ELSE pc' = "labels" /\ UNCHANGED <<fs, counter>>
    /\ UNCHANGED <<config, args, gt, trace, assignment, error, losses, cls_target, df,
                   fs_at_start, run_args, save_dir, save_txt_path, used>>

\* lines 109-111: one iteration of while osp.exists(new_dir)
NextDirBusy ==
    /\ pc = "next_dir"
    /\ exists(fs, Join(counter))
    /\ counter' = NextCounter(counter)
    /\ UNCHANGED <<config, pc, args, gt, trace, assignment, error, losses, cls_target, df,
                   fs, fs_at_start, run_args, save_dir, save_txt_path, used>>

\* lines 112, 126-128: the loop ends, the new directory is made
NextDirFree ==
    /\ pc = "next_dir"
    /\ ~exists(fs, Join(counter))
    /\ save_dir' = Join(counter)
    /\ fs' = makedirs(fs, Join(counter))
    /\ save_txt_path' = Labels(Join(counter))
    /\ counter' = NoInt
    /\ pc' = "labels"
    /\ UNCHANGED <<config, args, gt, trace, assignment, error, losses, cls_target, df,
                   fs_at_start, run_args, used>>

\* lines 130-132
MakeLabels ==
    /\ pc = "labels"
    /\ fs' = IF save_txt /\ ~exists(fs, save_txt_path)
             THEN makedirs(fs, save_txt_path) ELSE fs
    /\ pc' = "infer"
    /\ UNCHANGED <<config, args, gt, trace, assignment, error, losses, cls_target, df,
                   fs_at_start, run_args, save_dir, save_txt_path, counter, used>>

\* lines 135-141: the Inferer gets save_dir; run returns
Infer ==
    /\ pc = "infer"
    /\ used' = Append(used, <<save_dir, Saving(not_save_img, save_txt)>>)
    /\ save_dir_in' = NoPath /\ save_txt' = FALSE /\ not_save_img' = FALSE
    /\ save_dir' = NoPath /\ save_txt_path' = NoPath
    /\ fs_at_start' = {}
    /\ pc' = "run_idle"
    /\ UNCHANGED <<config, args, gt, trace, assignment, error, losses, cls_target, df,
                   fs, counter>>

NextRun == RunCall \/ MakeSaveDir \/ NextDirBusy \/ NextDirFree \/ MakeLabels \/ Infer

SpecRun == InitRun /\ [][NextRun]_vars

\* ------------------------------------------------------------ properties
AssignEntries == {i \in DOMAIN trace : trace[i][1] = "assign"}
Caught(kind) == \E i \in DOMAIN trace : trace[i] = <<"caught", kind, "">>
\* the host attempt returned and its results were moved with .cuda()
HostSucceeded == \E i \in DOMAIN trace : trace[i][1] = "cuda"
NoForeground == fg_mask # <<>> /\ \A n \in DOMAIN fg_mask : ~fg_mask[n]
SomeForeground == \E n \in DOMAIN fg_mask : fg_mask[n]
\* max_k(g_k) of the input batch
MaxGtCount ==
    CHOOSE m \in 0..Len(targets_in) :
        /\ \A i \in Images : GtCount(targets_in, i) <= m
        /\ \E i \in Images : GtCount(targets_in, i) = m

\* the calls of torch.cuda.empty_cache() so far
Releases == {i \in DOMAIN trace : trace[i] = <<"empty_cache", "", "">>}

\* C1: every assigner invocation of a call is the warmup assigner if and only if
\* the call's epoch_num is below warmup_epoch, and the formal assigner otherwise,
\* whatever calls came before.
C1_EpochGate ==
    epoch_num # NoInt =>
        \A i \in AssignEntries :
            /\ (trace[i][2] = "warmup") <=> (epoch_num < warmup_epoch)
            /\ (trace[i][2] = "formal") <=> (epoch_num >= warmup_epoch)

\* a call at the last warmup epoch went through the warmup assigner
C1_Witness ==
    /\ pc = "assigned"
    /\ epoch_num = warmup_epoch - 1
    /\ trace[1] = <<"assign", "warmup", device>>

\* C2: after an out-of-memory failure of the primary attempt the cache is released,
\* then the same assigner is tried once more on the host; if that attempt succeeds
\* the step ends with a loss and no failure reaches the caller, if it fails the
\* failure propagates; never more than two assigner invocations.
C2_OomRetry ==
    (Caught("OutOfMemoryError") /\ pc # "host") =>
        /\ Len(trace) >= 4
        /\ trace[3] = <<"empty_cache", "", "">>
        /\ trace[4] = <<"assign", trace[1][2], "cpu">>
        /\ Cardinality(AssignEntries) = 2
        /\ HostSucceeded => (pc # "raised" /\ error = "none")
        /\ ~HostSucceeded => (pc = "raised" /\ error # "none")

\* C3: only an out-of-memory failure is caught and retried on the host; any other
\* failure of the assignment propagates at once.
C3_OnlyOomRetried ==
    \A i \in DOMAIN trace : trace[i][1] = "caught" => trace[i][2] = "OutOfMemoryError"

\* C4: after a host-memory assignment the assignment results are on the device the
\* step's inputs are on, whichever device that is.
C4_ResultsOnOriginalDevice ==
    (pc \in {"assigned", "loss"} /\ HostSucceeded) => result_device = device

\* C5: with no foreground anchor the iou and dfl losses (and their components) are
\* exactly 0, nothing was divided by the target-score sum, and the total is finite.
C5_NoPositives ==
    (pc = "done" /\ NoForeground) =>
        /\ loss_iou = Zero /\ loss_dfl = Zero
        /\ loss_components[1].num = 0 /\ loss_components[1].den # 0
        /\ loss_components[2].num = 0 /\ loss_components[2].den # 0
        /\ divided = {}
        /\ IsFinite(loss)

\* a finished step of the alternate composer without any foreground anchor
C5_Witness ==
    /\ pc = "done" /\ NoForeground
    /\ variant = "ComputeLoss1"
    /\ loss.num > 0

\* C6: the classification loss is divided by target_scores_sum exactly when the sum
\* is > 1 (ComputeLoss) or > 0 (ComputeLoss1); it is never divided by zero.
C6_ClsNormalisation ==
    pc = "done" =>
        /\ variant = "ComputeLoss" => ("cls" \in divided <=> target_scores_sum > ScoreDen)
        /\ variant = "ComputeLoss1" => ("cls" \in divided <=> target_scores_sum > 0)
        /\ "cls" \in divided => target_scores_sum # 0
        /\ IsFinite(loss_cls)

\* the alternate composer divided by a sum in (0, 1]
C6_Witness ==
    /\ pc = "done" /\ variant = "ComputeLoss1"
    /\ target_scores_sum > 0 /\ target_scores_sum <= ScoreDen
    /\ "cls" \in divided

\* C7: within one step the box losses are divided by target_scores_sum in exactly
\* the cases in which the classification loss is.
C7_SameNormalisation ==
    (pc = "done" /\ SomeForeground) =>
        /\ "iou" \in divided <=> "cls" \in divided
        /\ use_dfl => ("dfl" \in divided <=> "cls" \in divided)

\* C8: every image has exactly max_k(g_k) slots; the slots after an image's own
\* rows are sentinel rows, and mask_gt is 0 on them.
C8_Padding ==
    pc = "pre_done" =>
        \A i \in Images :
            /\ Len(targets[i + 1]) = MaxGtCount
            /\ Len(mask_gt[i + 1]) = MaxGtCount
            /\ \A j \in (GtCount(targets_in, i) + 1)..MaxGtCount :
                /\ targets[i + 1][j] = SentinelRow
                /\ mask_gt[i + 1][j] = 0

\* an image with a row of its own and a padded slot after it
C8_Witness ==
    /\ pc = "pre_done"
    /\ \E i \in Images :
        /\ GtCount(targets_in, i) >= 1
        /\ GtCount(targets_in, i) < MaxGtCount
        /\ mask_gt[i + 1][1] = 1
        /\ targets[i + 1][MaxGtCount] = SentinelRow

\* C9 as stated: every image without ground truth has at least one sentinel row,
\* in every batch.
C9_AlwaysASentinel ==
    pc = "pre_done" =>
        \A i \in Images :
            GtCount(targets_in, i) = 0 =>
                \E j \in DOMAIN targets[i + 1] : targets[i + 1][j] = SentinelRow

\* C9 amended: an image without ground truth has at least one sentinel row when
\* some image of the batch has a ground-truth row; when none has, every image has
\* zero slots.
C9_SentinelWhenBatchHasGt ==
    pc = "pre_done" =>
        /\ MaxGtCount >= 1 =>
            \A i \in Images :
                GtCount(targets_in, i) = 0 =>
                    /\ Len(targets[i + 1]) >= 1
                    /\ \A j \in DOMAIN targets[i + 1] : targets[i + 1][j] = SentinelRow
        /\ MaxGtCount = 0 => \A i \in Images : targets[i + 1] = <<>>

\* an empty image beside an image with ground truth
C9_Witness ==
    /\ pc = "pre_done"
    /\ \E i, k \in Images :
        /\ GtCount(targets_in, i) = 0
        /\ GtCount(targets_in, k) >= 1
        /\ targets[i + 1][1] = SentinelRow

\* C10: the component vector is (iou, dfl, classification) with the regularisation
\* term appended last exactly when a gating decision is supplied; ComputeLoss1
\* always returns the three.
C10_ComponentOrder ==
    pc = "done" =>
        /\ Len(loss_components) = IF gating_decision = <<>> THEN 3 ELSE 4
        /\ variant = "ComputeLoss1" => Len(loss_components) = 3
        /\ loss_components[1] = Weighted(LossWeight(variant).iou, loss_iou)
        /\ loss_components[2] = Weighted(LossWeight(variant).dfl, loss_dfl)
        /\ loss_components[3] = Weighted(LossWeight(variant).class, loss_cls)
        /\ gating_decision # <<>> =>
            loss_components[4] = Frac(gating_decision[1] * lambda_reg, 1)

\* four distinguishable components after a host-memory assignment
C10_Witness ==
    /\ pc = "done"
    /\ HostSucceeded
    /\ Len(loss_components) = 4
    /\ loss_components[1] # loss_components[3]
    /\ loss_components[1] # loss_components[2]

\* C11: the cache is released at the end of the assignment exactly in the steps
\* whose step_num is a multiple of 10, with or without the host-memory fallback;
\* the only other release of a step is the one the fallback makes.
C11_ProactiveRelease ==
    pc = "loss" =>
        /\ (trace[Len(trace)] = <<"empty_cache", "", "">>) <=> (step_num % 10 = 0)
        /\ Cardinality(Releases) =
              (IF HostSucceeded THEN 1 ELSE 0) + (IF step_num % 10 = 0 THEN 1 ELSE 0)

\* step 10 after a host-memory assignment: the fallback's release and the proactive one
C11_Witness ==
    /\ pc = "loss"
    /\ step_num = 10
    /\ HostSucceeded
    /\ Cardinality(Releases) = 2

\* C12: on a background anchor the target label is num_classes, whatever the
\* assigner returned, and the one-hot row is all zeros; on a foreground anchor the
\* row has exactly one 1, at the assigner's class index, which is below num_classes.
C12_OneHotTarget ==
    pc = "cls_done" =>
        \A n \in Anchors :
            /\ Len(one_hot_label[n]) = NumClasses
            /\ ~fg_mask[n] =>
                /\ target_labels[n] = NumClasses
                /\ \A c \in 1..NumClasses : one_hot_label[n][c] = 0
            /\ fg_mask[n] =>
                /\ assigned_labels[n] < NumClasses
                /\ one_hot_label[n][assigned_labels[n] + 1] = 1
                /\ Cardinality({c \in 1..NumClasses : one_hot_label[n][c] = 1}) = 1

\* a background anchor that the assigner labelled with a real class, beside a
\* foreground anchor
C12_Witness ==
    /\ pc = "cls_done"
    /\ \E n, m \in Anchors :
        /\ ~fg_mask[n] /\ assigned_labels[n] = 0
        /\ fg_mask[m] /\ assigned_labels[m] = 1 /\ one_hot_label[m] # one_hot_label[n]

\* the input rows of image i (0-based), in input order
RowsOf(items, i) == LET OfImage(r) == r[1] = i IN SelectSeq(items, OfImage)

\* C13: the slots of an image start with exactly its own input rows, in input
\* order and each once, every one with its class unchanged and its box scaled and
\* converted; every slot after them is a sentinel row, so the real rows of the
\* whole output are as many as the input rows.
C13_Grouping ==
    pc = "pre_done" =>
        /\ \A i \in Images :
            LET own == RowsOf(targets_in, i) IN
            /\ Len(own) <= Len(targets[i + 1])
            /\ \A j \in 1..Len(own) :
                /\ targets[i + 1][j][1] = own[j][2]
                /\ targets[i + 1][j] = xywh2xyxy(ScaleRow(Tail(own[j])))
                /\ targets[i + 1][j] # SentinelRow
            /\ \A j \in (Len(own) + 1)..Len(targets[i + 1]) :
                targets[i + 1][j] = SentinelRow
        /\ Cardinality({<<i, j>> \in Images \X (1..MaxGT) :
                            /\ j <= Len(targets[i + 1])
                            /\ targets[i + 1][j] # SentinelRow}) = Len(targets_in)

\* rows of two images interleaved in the input, the image with two rows of
\* different classes, the other padded
C13_Witness ==
    /\ pc = "pre_done"
    /\ Len(targets_in) = 3
    /\ targets_in[1][1] = 0 /\ targets_in[2][1] = 1 /\ targets_in[3][1] = 0
    /\ targets_in[1][2] # targets_in[3][2]
    /\ targets[1][1][1] = targets_in[1][2]
    /\ targets[1][2][1] = targets_in[3][2]
    /\ targets[2][2] = SentinelRow

\* C14: for a target distance in [0, reg_max - epsilon] the lower bin is its floor,
\* the upper bin is the lower one plus 1, both are bins 0..reg_max, and the two
\* weights (upper - t and 1 minus that) are each in [0, 1] and sum to 1.
C14_DflBins ==
    pc = "df_done" =>
        /\ 0 <= target /\ target <= reg_max * DistDen - 1
        /\ target_left * DistDen <= target
        /\ target < (target_left + 1) * DistDen
        /\ target_right = target_left + 1
        /\ target_left \in 0..reg_max
        /\ target_right \in 0..reg_max
        /\ weight_left = target_right * DistDen - target
        /\ weight_right = DistDen - weight_left
        /\ weight_left \in 0..DistDen
        /\ weight_right \in 0..DistDen
        /\ weight_left + weight_right = DistDen

\* a distance beyond the range, clipped to reg_max - epsilon: the upper bin is the
\* last bin and carries almost all the weight
C14_Witness ==
    /\ pc = "df_done"
    /\ dist > target
    /\ target = reg_max * DistDen - 1
    /\ target_left = reg_max - 1
    /\ target_right = reg_max
    /\ weight_left = 1
    /\ weight_right = DistDen - 1

\* the sum of the entries of a component vector, first entry first
RECURSIVE SumOfEntries(_)
SumOfEntries(components) ==
    IF components = <<>> THEN Zero
    ELSE FracAdd(Head(components), SumOfEntries(Tail(components)))

\* C15: the total loss a step returns is the sum of the entries of the component
\* vector it returns: the three weighted terms without a gating decision, and these
\* plus lambda_reg times the gating mean with one; the regularisation term is in
\* the total exactly when it is in the vector.
C15_TotalIsSumOfComponents ==
    pc = "done" =>
        LET three == FracAdd(FracAdd(Weighted(LossWeight(variant).class, loss_cls),
                                     Weighted(LossWeight(variant).iou, loss_iou)),
                             Weighted(LossWeight(variant).dfl, loss_dfl))
        IN  /\ IsFinite(loss)
            /\ loss = SumOfEntries(loss_components)
            /\ gating_decision = <<>> =>
                /\ Len(loss_components) = 3
                /\ loss = three
            /\ gating_decision # <<>> =>
                /\ Len(loss_components) = 4
                /\ loss = FracAdd(three, Frac(gating_decision[1] * lambda_reg, 1))

\* a step with a gating decision and positives: four non-zero entries, and a total
\* that is more than the three weighted terms
C15_Witness ==
    /\ pc = "done"
    /\ gating_decision # <<>>
    /\ lambda_reg = 2
    /\ Len(loss_components) = 4
    /\ \A k \in 1..4 : loss_components[k] # Zero
    /\ loss = SumOfEntries(loss_components)
    /\ loss # SumOfEntries(SubSeq(loss_components, 1, 3))

\* the directory the run was asked to save to
Target == IF save_dir_in = NoPath THEN Join(0) ELSE save_dir_in

\* C16: a run that saves never uses a directory that existed before it started;
\* when its target directory existed it uses project/name<n> for the smallest
\* n >= 1 that did not exist, and otherwise the target itself; the search for n
\* stays within one more than the numbered names that exist, so it ends; the
\* directories of the saving runs made so far are pairwise distinct.
C16_FreshOutputDirectory ==
    /\ pc = "next_dir" =>
        /\ counter >= 1
        /\ counter <= Cardinality({n \in 1..(MaxExisting + MaxRuns) : Join(n) \in fs}) + 1
        /\ \A k \in 1..(counter - 1) : Join(k) \in fs
    /\ (pc = "infer" /\ Saving(not_save_img, save_txt)) =>
        /\ save_dir \notin fs_at_start
        /\ save_dir \in fs
        /\ Target \notin fs_at_start => save_dir = Target
        /\ Target \in fs_at_start =>
            \E n \in 1..(MaxExisting + MaxRuns) :
                /\ save_dir = Join(n)
                /\ \A k \in 1..(n - 1) : Join(k) \in fs_at_start
        /\ save_txt => /\ save_txt_path \in fs
                       /\ save_txt_path \notin fs_at_start
                       /\ <<save_txt_path[1], save_txt_path[2], "">> = save_dir
        /\ \A i \in DOMAIN used : used[i][2] => used[i][1] # save_dir
    /\ \A i, j \in DOMAIN used :
        (i # j /\ used[i][2] /\ used[j][2]) => used[i][1] # used[j][1]

\* the third saving run in a row: project/name and name1 existed, name2 did not
C16_Witness ==
    /\ pc = "infer"
    /\ Len(used) = 2
    /\ used[1][2] /\ used[2][2]
    /\ Saving(not_save_img, save_txt)
    /\ save_txt
    /\ Target = Join(0)
    /\ Join(1) \in fs_at_start
    /\ save_dir = Join(2)
    /\ Labels(Join(2)) \in fs

====
